---- MODULE Spec2Model ----
(***************************************************************************)
(* Verification model of the cost-estimation core: the pricing-version     *)
(* catalog (state machine, database constraints, activation transaction),  *)
(* the per-service pricing tables and the matcher, the Terraform           *)
(* evaluation engine and the cost aggregator.                              *)
(***************************************************************************)
EXTENDS Integers, Sequences, FiniteSets, TLC

VARIABLES
    versions,   \* committed rows of pricing_versions, indexed by SERIAL id
    tx,         \* per database session: the activate_version transaction in flight
    ret,        \* what the latest activate_version call returned
    run,        \* one cost-calculation run reading the catalog
    pricing_ec2,\* rows of pricing_ec2, indexed by SERIAL id
    matched,    \* the latest match_pricing call: its query and what it returned
    eng,        \* the evaluation engine and the report of one submission
    results,    \* the Cost Results handed to the aggregator
    analytics,  \* what CostAggregator(results).aggregate() returned
    calc,       \* the cost calculator working through the resources of a run
    made,       \* the latest attempt to construct a ResourceCostResult
    loc,        \* the resolution of the locals of one configuration, pass by pass
    generated,  \* how many ids generateId() has handed out
    store,      \* useProjectStore: the project store of the web client
    editor,     \* ProjectEditor: the canvas nodes, the selected node, the dialog flag
    dialog,     \* ServiceConfigDialog as ProjectEditor renders it: its form state
    request,    \* the estimate request of 'Calculate Cost'
    gcal        \* GenericCalculator: its state and its pricing requests in flight

vars == <<versions, tx, ret, run, pricing_ec2, matched, eng, results, analytics,
          calc, made, loc, generated, store, editor, dialog, request, gcal>>

\* the variables of the web client and of the backend
frontend == <<generated, store, editor, dialog, request, gcal>>
backend ==
    <<versions, tx, ret, run, pricing_ec2, matched, eng, results, analytics, calc,
      made, loc>>

\* the variables outside each component
notCatalog == <<pricing_ec2, matched, eng, results, analytics, calc, made, loc, frontend>>
notPricing == <<versions, tx, ret, run, eng, results, analytics, calc, made, loc, frontend>>
notEngine ==
    <<versions, tx, ret, run, pricing_ec2, matched, results, analytics, calc, made, loc, frontend>>
notAnalytics ==
    <<versions, tx, ret, run, pricing_ec2, matched, eng, calc, made, loc, frontend>>
notCalculator ==
    <<versions, tx, ret, run, pricing_ec2, matched, eng, results, analytics, made, loc, frontend>>
notCostResult ==
    <<versions, tx, ret, run, pricing_ec2, matched, eng, results, analytics, calc, loc, frontend>>
notLocals ==
    <<versions, tx, ret, run, pricing_ec2, matched, eng, results, analytics, calc,
      made, frontend>>
notProjectStore == <<backend, editor, dialog, request, gcal>>
notProjectEditor == <<backend, gcal>>
notGenericCalculator == <<backend, generated, store, editor, dialog, request>>

----------------------------------------------------------------------------
(* Bounds of the model *)

MaxVersions == 3
MaxSessions == 2
MaxResources == 2
MaxRows == 2
MaxTemplates == 2
MaxResults == 2
MaxCost == 2
MaxLocals == 3
MaxNodes == 2
MaxEdges == 2
MaxInflight == 2
MaxPages == 2

Sessions == 1..MaxSessions
NoVersion == 0

----------------------------------------------------------------------------
(* pricing_versions: columns, trigger and constraints *)

pricing_version_status == {"DRAFT", "VALIDATED", "ACTIVE", "ARCHIVED"}

\* mutant: the table without trg_sync_pricing_version_active
sync_pricing_version_active_Missing(row) == row

\* trg_sync_pricing_version_active: BEFORE INSERT OR UPDATE, per row
sync_pricing_version_active(row) ==
    [row EXCEPT !.is_active = (row.status = "ACTIVE")]

\* a timestamp column is modelled by whether it IS NOT NULL
NewVersionRow ==
    sync_pricing_version_active(
        [status |-> "DRAFT", validated_at |-> FALSE, activated_at |-> FALSE,
         archived_at |-> FALSE, is_active |-> FALSE])

\* mutant: the table without chk_validated_timestamp
chk_validated_timestamp_Dropped(row) == TRUE

chk_validated_timestamp(row) ==
    \/ (row.status \in {"VALIDATED", "ACTIVE", "ARCHIVED"} /\ row.validated_at)
    \/ (row.status = "DRAFT" /\ ~row.validated_at)

chk_activated_timestamp(row) ==
    \/ (row.status \in {"ACTIVE", "ARCHIVED"} /\ row.activated_at)
    \/ (row.status \in {"DRAFT", "VALIDATED"} /\ ~row.activated_at)

chk_archived_timestamp(row) ==
    \/ (row.status = "ARCHIVED" /\ row.archived_at)
    \/ (row.status \in {"DRAFT", "VALIDATED", "ACTIVE"} /\ ~row.archived_at)

ActiveIds(tbl) == {i \in DOMAIN tbl : tbl[i].status = "ACTIVE"}

\* mutants of the unique partial index: created without UNIQUE
idx_single_active_NotUnique(tbl) == TRUE

idx_single_active_AllowsTwo(tbl) == Cardinality(ActiveIds(tbl)) <= 2

\* CREATE UNIQUE INDEX ... ON pricing_versions (status) WHERE status = 'ACTIVE'
idx_pricing_versions_single_active(tbl) == Cardinality(ActiveIds(tbl)) <= 1

\* what the database accepts as a committed table
ConstraintsHold(tbl) ==
    /\ idx_pricing_versions_single_active(tbl)
    /\ \A i \in DOMAIN tbl :
          /\ chk_validated_timestamp(tbl[i])
          /\ chk_activated_timestamp(tbl[i])
          /\ chk_archived_timestamp(tbl[i])

----------------------------------------------------------------------------
(* Transactions: buffered row updates, committed or rolled back as a whole *)

\* mutant: the update writes the timestamps the new status requires and
\* clears the others
UpdateStatusStampsAll(row, st) ==
    sync_pricing_version_active(
        [row EXCEPT !.status = st,
                    !.validated_at = st \in {"VALIDATED", "ACTIVE", "ARCHIVED"},
                    !.activated_at = st \in {"ACTIVE", "ARCHIVED"},
                    !.archived_at = st = "ARCHIVED"])

\* UPDATE pricing_versions SET status = st, <st>_at = now() WHERE id = ...
UpdateStatus(row, st) ==
    sync_pricing_version_active(
        [row EXCEPT !.status = st,
                    !.validated_at = IF st = "VALIDATED" THEN TRUE ELSE @,
                    !.activated_at = IF st = "ACTIVE" THEN TRUE ELSE @,
                    !.archived_at = IF st = "ARCHIVED" THEN TRUE ELSE @])

RECURSIVE ApplyWrites(_, _)
ApplyWrites(tbl, writes) ==
    IF writes = <<>> THEN tbl
    ELSE LET w == Head(writes)
         IN ApplyWrites([tbl EXCEPT ![w[1]] = UpdateStatus(@, w[2])], Tail(writes))

\* mutant of Rollback: the archive statement was committed on its own
RollbackKeepsArchive(tbl, writes) ==
    ApplyWrites(tbl, SelectSeq(writes, LAMBDA w : w[2] = "ARCHIVED"))

\* AsyncTransactionContext: rollback on error discards every statement
Rollback(tbl, writes) == tbl

\* AsyncTransactionContext: commit on success; a constraint violation is an error
Commit(tbl, writes) ==
    IF ConstraintsHold(ApplyWrites(tbl, writes))
    THEN ApplyWrites(tbl, writes)
    ELSE Rollback(tbl, writes)

Committed(tbl, writes) == ConstraintsHold(ApplyWrites(tbl, writes))

----------------------------------------------------------------------------
(* PricingVersionManager *)

\* get_active_version: "Returns the ONE active version or None"
get_active_version(tbl) ==
    IF ActiveIds(tbl) = {} THEN NoVersion ELSE CHOOSE i \in ActiveIds(tbl) : TRUE

IdleTx == [pc |-> "idle", target |-> NoVersion, cur |-> NoVersion]

\* create_draft_version: INSERT with status DRAFT
create_draft_version ==
    /\ Len(versions) < MaxVersions
    /\ versions' = Append(versions, NewVersionRow)
    /\ UNCHANGED <<tx, ret, run, notCatalog>>

\* validate_version: DRAFT -> VALIDATED when the validation checks pass
validate_version(v, checksPass) ==
    /\ v \in DOMAIN versions
    /\ versions[v].status = "DRAFT"
    /\ versions' = IF checksPass THEN Commit(versions, <<<<v, "VALIDATED">>>>)
                   ELSE versions
    /\ UNCHANGED <<tx, ret, run, notCatalog>>

\* mutant: archive_version without the check of the current status
ArchiveAllowedAlways(row) == TRUE

\* the transitions into ARCHIVED that archive_version makes itself
ArchiveAllowed(row) == row.status \in {"DRAFT", "VALIDATED"}

\* archive_version: "Cannot archive ACTIVE version directly - must activate
\* another first"
archive_version(v) ==
    /\ v \in DOMAIN versions
    /\ IF ArchiveAllowed(versions[v])
       THEN /\ versions' = Commit(versions, <<<<v, "ARCHIVED">>>>)
            /\ ret' = ret
       ELSE /\ versions' = versions
            /\ ret' = "VersionTransitionError: cannot archive"
    /\ UNCHANGED <<tx, run, notCatalog>>

\* activate_version, entry: transition check, then read the current ACTIVE row
activate_begin(s, v, force) ==
    /\ tx[s].pc = "idle"
    /\ v \in DOMAIN versions
    /\ IF versions[v].status = "VALIDATED" \/ (force /\ versions[v].status = "DRAFT")
       THEN /\ tx' = [tx EXCEPT ![s] = [pc |-> "open", target |-> v,
                                        cur |-> get_active_version(versions)]]
            /\ ret' = ret
       ELSE /\ tx' = tx
            /\ ret' = "VersionTransitionError"
    /\ UNCHANGED <<versions, run, notCatalog>>

\* the statements of activate_version: 1. archive current ACTIVE version (if
\* exists), 2. activate new version
ActivationWrites(t) ==
    (IF t.cur = NoVersion THEN <<>> ELSE <<<<t.cur, "ARCHIVED">>>>)
        \o <<<<t.target, "ACTIVE">>>>

\* activate_version, 3. both in single transaction: the statement that violates
\* a constraint raises, and the transaction is rolled back
activate_commit(s) ==
    /\ tx[s].pc = "open"
    /\ versions' = Commit(versions, ActivationWrites(tx[s]))
    /\ ret' = IF Committed(versions, ActivationWrites(tx[s])) THEN "ok"
              ELSE IF idx_pricing_versions_single_active(
                          ApplyWrites(versions, ActivationWrites(tx[s])))
                   THEN "IntegrityError"
                   ELSE "MultipleActiveVersionsError"
    /\ tx' = [tx EXCEPT ![s] = IdleTx]
    /\ UNCHANGED <<run, notCatalog>>

\* UPDATE pricing_versions SET is_active = b WHERE version = ..., run by an
\* operator outside the manager: the trigger sees the new row before the
\* constraints do
update_is_active(v, b) ==
    /\ v \in DOMAIN versions
    /\ LET row == sync_pricing_version_active([versions[v] EXCEPT !.is_active = b])
           tbl == [versions EXCEPT ![v] = row]
       IN versions' = IF ConstraintsHold(tbl) THEN tbl ELSE versions
    /\ ret' = IF b THEN "UPDATE is_active = true" ELSE "UPDATE is_active = false"
    /\ UNCHANGED <<tx, run, notCatalog>>

----------------------------------------------------------------------------
(* A cost-calculation run against the catalog *)

IdleRun == [pc |-> "idle", pinned |-> NoVersion, used |-> <<>>, moved |-> FALSE]

\* mutant: every query re-reads the ACTIVE version
QueryVersionLive(r, tbl) == get_active_version(tbl)

\* "Use active_version.id for all pricing queries"
QueryVersion(r, tbl) == r.pinned

\* active_version = manager.get_active_version(); raise if there is none
run_start ==
    /\ run.pc = "idle"
    /\ LET a == get_active_version(versions)
       IN run' = IF a = NoVersion
                 THEN [IdleRun EXCEPT !.pc = "failed"]
                 ELSE [IdleRun EXCEPT !.pc = "pricing", !.pinned = a]
    /\ UNCHANGED <<versions, tx, ret, notCatalog>>

\* one pricing query of the run: filter version_id == active_version.id
\* (moved records that a query ran after the ACTIVE version had changed)
run_price ==
    /\ run.pc = "pricing"
    /\ Len(run.used) < MaxResources
    /\ run' = [run EXCEPT !.used = Append(@, QueryVersion(run, versions)),
                          !.moved = @ \/ get_active_version(versions) # run.pinned]
    /\ UNCHANGED <<versions, tx, ret, notCatalog>>

run_finish ==
    /\ run.pc \in {"pricing", "failed"}
    /\ run' = IdleRun
    /\ UNCHANGED <<versions, tx, ret, notCatalog>>

----------------------------------------------------------------------------
(* pricing_ec2 and the pricing adapter's match *)

NULL == "NULL"

InstanceTypes == {"t3.micro", "t3.large"}
OperatingSystems == {"Linux"}
Tenancies == {"Shared"}
Regions == {"us-east-1"}
CapacityStatuses == {NULL, "Used"}

\* the rows an ingestion can insert (sku, price and unit do not take part in
\* the constraint or in the match)
Ec2Rows ==
    [version_id : 1..MaxVersions, instance_type : InstanceTypes,
     operating_system : OperatingSystems, tenancy : Tenancies,
     region : Regions, capacity_status : CapacityStatuses]

\* SQL equality of a nullable column inside a UNIQUE constraint: NULL is equal
\* to nothing (the other columns of the constraint are NOT NULL)
SqlEq(a, b) == a # NULL /\ b # NULL /\ a = b

\* UNIQUE(version_id, instance_type, operating_system, tenancy, region,
\*        capacity_status): whether the table accepts the new row
uq_pricing_ec2_sku(tbl, row) ==
    ~ \E i \in DOMAIN tbl :
         /\ tbl[i].version_id = row.version_id
         /\ tbl[i].instance_type = row.instance_type
         /\ tbl[i].operating_system = row.operating_system
         /\ tbl[i].tenancy = row.tenancy
         /\ tbl[i].region = row.region
         /\ SqlEq(tbl[i].capacity_status, row.capacity_status)

\* INSERT INTO pricing_ec2: a row that violates the constraint is rejected
insert_pricing_ec2(row) ==
    /\ Len(pricing_ec2) < MaxRows
    /\ uq_pricing_ec2_sku(pricing_ec2, row)
    /\ pricing_ec2' = Append(pricing_ec2, row)
    /\ UNCHANGED <<matched, notPricing>>

\* a normalized compute resource: its matching attributes
Ec2Resources ==
    [instance_type : InstanceTypes, operating_system : OperatingSystems,
     tenancy : Tenancies, region : Regions]

\* the rows of one version that match the resource's attributes
MatchingRows(tbl, resource, version) ==
    {i \in DOMAIN tbl :
        /\ tbl[i].version_id = version
        /\ tbl[i].instance_type = resource.instance_type
        /\ tbl[i].operating_system = resource.operating_system
        /\ tbl[i].tenancy = resource.tenancy
        /\ tbl[i].region = resource.region}

NoRow == 0

\* mutant: Query.first(), the first row in id order
first(rows) ==
    IF rows = {} THEN [raised |-> "none", row |-> NoRow]
    ELSE [raised |-> "none", row |-> CHOOSE i \in rows : \A j \in rows : i <= j]

\* Query.one_or_none(): the row, None for no row, MultipleResultsFound for more
one_or_none(rows) ==
    IF rows = {} THEN [raised |-> "none", row |-> NoRow]
    ELSE IF Cardinality(rows) = 1
         THEN [raised |-> "none", row |-> CHOOSE i \in rows : TRUE]
         ELSE [raised |-> "MultipleResultsFound", row |-> NoRow]

\* StrictEC2Adapter.match_pricing: "MUST find pricing or error"
match_pricing(tbl, resource, version) ==
    LET result == one_or_none(MatchingRows(tbl, resource, version))
    IN IF result.raised # "none"
       THEN [outcome |-> result.raised, row |-> NoRow]
       ELSE IF result.row = NoRow
            THEN [outcome |-> "PricingMatchError", row |-> NoRow]
            ELSE [outcome |-> "PricingRule", row |-> result.row]

NoMatch == [called |-> FALSE]

\* adapter = StrictEC2Adapter(db, pricing_version); adapter.match_pricing(resource)
call_match_pricing(resource, version) ==
    /\ matched' = [called |-> TRUE, resource |-> resource, version |-> version,
                   result |-> match_pricing(pricing_ec2, resource, version)]
    /\ UNCHANGED <<pricing_ec2, notPricing>>

----------------------------------------------------------------------------
(* Terraform evaluation engine: inputs *)

\* TerraformEvaluationEngine(max_expansion=...): the configured limit
max_expansion == 2

\* an optional number is the empty set or a singleton
Optional(S) == {{}} \cup {{x} : x \in S}

\* variable "n": its default and the override given with the submission
VariableDecls == [default : Optional({2}), override : Optional({0})]

\* locals a and b: each a literal or a reference to the other local
LocalDecls == [a : {"lit", "b"}, b : {"lit", "a"}]

\* count = <expression>
CountExprs ==
    {<<"lit", k>> : k \in 0..(max_expansion + 1)}
        \cup {<<"var">>, <<"cond">>, <<"data">>}

\* the keys of the for_each collections: 10, 20, ...
KeyAt(i) == 10 * i

\* a map literal of k entries: each key with a value that is not a key
MapOf(k) == [key \in {KeyAt(i) : i \in 1..k} |-> key + 5]

\* a set of k elements, taken as the map from each element to itself
SetOf(k) == [key \in {KeyAt(i) : i \in 1..k} |-> key]

\* for_each = <expression>: a map, a set, or a data source attribute
ForEachExprs ==
    {<<"map", MapOf(k)>> : k \in 0..(max_expansion + 1)}
        \cup {<<"set", SetOf(k)>> : k \in 1..2}
        \cup {<<"data">>}

\* an attribute of a template: its expression is a literal
Attrs == {<<"lit", 1>>}

Templates ==
    [meta : {"count"}, rtype : {"aws_instance"}, expr : CountExprs, attr : Attrs]
        \cup [meta : {"for_each"}, rtype : {"aws_instance"}, expr : ForEachExprs,
              attr : Attrs]
        \cup [meta : {"none"}, rtype : {"aws_instance", "aws_vpc"},
              expr : {<<"lit", 1>>}, attr : Attrs]

RECURSIVE SeqsUpTo(_, _)
SeqsUpTo(S, n) ==
    IF n = 0 THEN {<<>>}
    ELSE LET shorter == SeqsUpTo(S, n - 1)
         IN shorter \cup {Append(q, x) : q \in {r \in shorter : Len(r) = n - 1}, x \in S}

Configs ==
    [variable : VariableDecls, locals : LocalDecls,
     templates : SeqsUpTo(Templates, MaxTemplates)]

\* an attribute that is a literal or a reference to the loop context:
\* "server-${count.index}", "${each.key}-server", "${each.value}"
ReferenceAttrs == Attrs \cup {<<"count.index">>, <<"each.key">>, <<"each.value">>}

LoopReferences == {"count.index", "each.key", "each.value"}

\* templates with a literal count, a map or no meta-argument, and an
\* attribute that may refer to the loop context
ReferenceTemplates ==
    [meta : {"count"}, rtype : {"aws_instance"},
     expr : {<<"lit", k>> : k \in 0..max_expansion}, attr : ReferenceAttrs]
        \cup [meta : {"for_each"}, rtype : {"aws_instance"},
              expr : {<<"map", MapOf(k)>> : k \in 1..max_expansion},
              attr : ReferenceAttrs]
        \cup [meta : {"none"}, rtype : {"aws_instance"}, expr : {<<"lit", 1>>},
              attr : ReferenceAttrs]

ReferenceConfigs ==
    [variable : {[default |-> {2}, override |-> {}]},
     locals : {[a |-> "lit", b |-> "lit"]},
     templates : SeqsUpTo(ReferenceTemplates, MaxTemplates)]

----------------------------------------------------------------------------
(* Expression evaluator *)

Value(v) == [ok |-> TRUE, v |-> v]
Raise(err) == [ok |-> FALSE, err |-> err]

\* no loop context: neither count.index nor each.key / each.value is bound
NoContext == [x \in {} |-> 0]

\* the symbol table an instance's attributes are evaluated against: the
\* run's table with the loop context of the instance
Bind(symbols, ctx) == [symbols EXCEPT !.ctx = ctx]

\* ExpressionEvaluator.evaluate on the expressions of a meta-argument and of
\* an attribute (symbols.n is the resolved value of var.n, empty when it has
\* none; symbols.ctx is the loop context)
evaluate(expr, symbols) ==
    CASE expr[1] = "lit" -> Value(expr[2])
      [] expr[1] = "count.index" ->
            IF "index" \in DOMAIN symbols.ctx THEN Value(symbols.ctx.index)
            ELSE Raise("UnresolvedReference")
      [] expr[1] = "each.key" ->
            IF "key" \in DOMAIN symbols.ctx THEN Value(symbols.ctx.key)
            ELSE Raise("UnresolvedReference")
      [] expr[1] = "each.value" ->
            IF "key" \in DOMAIN symbols.ctx
            THEN Value(symbols.ctx.collection[symbols.ctx.key])
            ELSE Raise("UnresolvedReference")
      [] expr[1] \in {"map", "set"} -> Value(expr[2])
      [] expr[1] = "var" ->
            IF symbols.n = {} THEN Raise("UnresolvedReference")
            ELSE Value(CHOOSE x \in symbols.n : TRUE)
      [] expr[1] = "cond" ->
            IF symbols.n = {} THEN Raise("UnresolvedReference")
            ELSE Value(IF (CHOOSE x \in symbols.n : TRUE) > 0 THEN 1 ELSE 0)
      [] expr[1] = "data" -> Raise("DynamicValueError")

----------------------------------------------------------------------------
(* Stages of the engine *)

Stages == <<"ParseComplete", "VariablesResolved", "LocalsResolved",
            "ConditionalsResolved", "CountExpanded", "ForEachExpanded", "Finalized">>

StageIndex(stage) == CHOOSE i \in 1..Len(Stages) : Stages[i] = stage

\* mutant: the stage after VariablesResolved is ConditionalsResolved
StageAfterSkipsLocals(stage) ==
    IF stage = "VariablesResolved" THEN "ConditionalsResolved"
    ELSE Stages[StageIndex(stage) + 1]

StageAfter(stage) == Stages[StageIndex(stage) + 1]

IdleEngine ==
    [stage |-> "Idle", error |-> "none", config |-> <<>>, symbols |-> [n |-> {}, ctx |-> NoContext],
     resources |-> <<>>, results |-> <<>>, outcome |-> "none"]

\* mutant: a failed run keeps what it had expanded so far
FailBestEffort(e, err) ==
    [e EXCEPT !.stage = "Failed", !.error = err, !.outcome = "FatalError"]

\* "All errors are fatal - the engine fails fast": the run ends with the
\* error and nothing else
Fail(e, err) ==
    [e EXCEPT !.stage = "Failed", !.error = err, !.resources = <<>>,
              !.outcome = "FatalError"]

Advance(e) == [e EXCEPT !.stage = StageAfter(e.stage)]

\* engine.evaluate(parsed_terraform, variables): the parser's output is in
start_evaluation ==
    /\ eng.stage = "Idle"
    /\ \E config \in Configs :
          eng' = [eng EXCEPT !.stage = "ParseComplete", !.config = config]
    /\ UNCHANGED notEngine

\* engine.evaluate(...) of a configuration whose attributes refer to the loop
\* context
start_evaluation_with_references ==
    /\ eng.stage = "Idle"
    /\ \E config \in ReferenceConfigs :
          eng' = [eng EXCEPT !.stage = "ParseComplete", !.config = config]
    /\ UNCHANGED notEngine

\* Resolve Variables: apply defaults and overrides, the override first
resolve_variables ==
    /\ eng.stage = "ParseComplete"
    /\ LET decl == eng.config.variable
           value == IF decl.override # {} THEN decl.override ELSE decl.default
       IN eng' = [Advance(eng) EXCEPT !.symbols = [n |-> value, ctx |-> NoContext]]
    /\ UNCHANGED notEngine

\* one pass over the locals: a local resolves when what it refers to has
RECURSIVE ResolveLocals(_, _)
ResolveLocals(decls, resolved) ==
    LET pass == resolved \cup
                {l \in DOMAIN decls : decls[l] = "lit" \/ decls[l] \in resolved}
    IN IF pass = resolved THEN resolved ELSE ResolveLocals(decls, pass)

resolve_locals ==
    /\ eng.stage = "VariablesResolved"
    /\ LET decls == eng.config.locals
       IN eng' = IF ResolveLocals(decls, {}) = DOMAIN decls
                 THEN Advance(eng)
                 ELSE Fail(eng, "InvalidExpression")
    /\ UNCHANGED notEngine

\* Locals, as the parser hands them over: local l of 1..n, in the order of
\* declaration, is a literal or a reference to a local of the configuration
LocalExprs(n) == {<<"lit", v>> : v \in {7, 8}} \cup {<<"ref", m>> : m \in 1..n}

LocalsOf(n) == [1..n -> LocalExprs(n)]

NoLocals == [l \in {} |-> 0]

IdleLocals ==
    [pc |-> "Idle", decls |-> <<>>, resolved |-> NoLocals, passes |-> 0,
     error |-> "none"]

\* one pass over the declarations from the i-th on, in declaration order: a
\* literal resolves to itself, a reference to what its target has resolved to
RECURSIVE LocalsPass(_, _, _)
LocalsPass(decls, resolved, i) ==
    IF i > Len(decls) THEN resolved
    ELSE LET e == decls[i]
             now == IF i \in DOMAIN resolved THEN resolved
                    ELSE IF e[1] = "lit"
                    THEN [l \in DOMAIN resolved \cup {i} |->
                             IF l = i THEN e[2] ELSE resolved[l]]
                    ELSE IF e[2] \in DOMAIN resolved
                    THEN [l \in DOMAIN resolved \cup {i} |->
                             IF l = i THEN resolved[e[2]] ELSE resolved[l]]
                    ELSE resolved
         IN LocalsPass(decls, now, i + 1)

\* mutant: a fixpoint that did not converge returns what it has resolved
LocalsOutcome_KeepsPartial(l) ==
    IF DOMAIN l.resolved = DOMAIN l.decls
    THEN [l EXCEPT !.pc = "LocalsResolved"]
    ELSE [l EXCEPT !.pc = "Failed", !.error = "InvalidExpression"]

\* a pass that resolved nothing ends the resolution: with every local
\* resolved, or with InvalidExpression and no locals
LocalsOutcome(l) ==
    IF DOMAIN l.resolved = DOMAIN l.decls
    THEN [l EXCEPT !.pc = "LocalsResolved"]
    ELSE [l EXCEPT !.pc = "Failed", !.error = "InvalidExpression",
                   !.resolved = NoLocals]

\* the locals of a configuration are handed to the resolver
locals_start ==
    /\ loc.pc = "Idle"
    /\ \E n \in 0..MaxLocals : \E decls \in LocalsOf(n) :
          loc' = [loc EXCEPT !.pc = "Resolving", !.decls = decls]
    /\ UNCHANGED notLocals

\* one pass of the fixpoint
locals_pass ==
    /\ loc.pc = "Resolving"
    /\ LET pass == LocalsPass(loc.decls, loc.resolved, 1)
           counted == [loc EXCEPT !.passes = @ + 1]
       IN loc' = IF pass # loc.resolved
                 THEN [counted EXCEPT !.resolved = pass]
                 ELSE LocalsOutcome(counted)
    /\ UNCHANGED notLocals

\* the first error of a sequence of evaluation results, or "none"
RECURSIVE FirstError(_)
FirstError(rs) ==
    IF rs = <<>> THEN "none"
    ELSE IF ~Head(rs).ok THEN Head(rs).err ELSE FirstError(Tail(rs))

\* Evaluate Conditionals: resolve the ternary expressions
evaluate_conditionals ==
    /\ eng.stage = "LocalsResolved"
    /\ LET ts == eng.config.templates
           rs == [i \in DOMAIN ts |->
                     IF ts[i].expr[1] = "cond"
                     THEN evaluate(ts[i].expr, eng.symbols)
                     ELSE Value(0)]
           resolved == [i \in DOMAIN ts |->
                           IF ts[i].expr[1] = "cond"
                           THEN [ts[i] EXCEPT !.expr = <<"lit", rs[i].v>>]
                           ELSE ts[i]]
       IN eng' = IF FirstError(rs) # "none"
                 THEN Fail(eng, FirstError(rs))
                 ELSE [Advance(eng) EXCEPT !.config.templates = resolved]
    /\ UNCHANGED notEngine

\* one instance of a template: its attribute is evaluated against the symbol
\* table of the instance
Instance(name, template, index, symbols) ==
    [name |-> name, rtype |-> template.rtype, index |-> index,
     attributes |-> evaluate(template.attr, symbols)]

\* the instances with their resolved attributes, or the first error
Resolved(instances) ==
    LET err == FirstError([i \in DOMAIN instances |-> instances[i].attributes])
    IN IF err # "none" THEN Raise(err)
       ELSE Value([i \in DOMAIN instances |->
                      [instances[i] EXCEPT !.attributes = @.v]])

\* mutant: the instances are numbered from 1
CountIndexFromOne(i) == i

\* count.index of the i-th instance
CountIndex(i) == i - 1

\* CountExpander(evaluator, max_expansion).expand(resource)
CountExpander_expand(name, template, symbols) ==
    LET n == evaluate(template.expr, symbols)
    IN IF ~n.ok THEN n
       ELSE IF n.v > max_expansion THEN Raise("ExpansionLimitExceeded")
       ELSE Resolved([i \in 1..n.v |->
                Instance(name, template, <<"count", CountIndex(i)>>,
                         Bind(symbols, [index |-> CountIndex(i)]))])

\* the elements of a finite set of numbers in ascending order
RECURSIVE Ascending(_)
Ascending(S) ==
    IF S = {} THEN <<>>
    ELSE LET least == CHOOSE x \in S : \A y \in S : x <= y
         IN <<least>> \o Ascending(S \ {least})

\* mutant: the expander goes over the values of the collection
EachOfValues(collection) ==
    Ascending({collection[key] : key \in DOMAIN collection})

\* the each.key of the instances of a collection
EachOf(collection) == Ascending(DOMAIN collection)

\* ForEachExpander(evaluator, max_expansion).expand(resource)
ForEachExpander_expand(name, template, symbols) ==
    LET collection == evaluate(template.expr, symbols)
    IN IF ~collection.ok THEN collection
       ELSE IF Cardinality(DOMAIN collection.v) > max_expansion
            THEN Raise("ExpansionLimitExceeded")
       ELSE LET keys == EachOf(collection.v)
            IN Resolved([k \in 1..Len(keys) |->
                  Instance(name, template, <<"key", keys[k]>>,
                           Bind(symbols, [key |-> keys[k],
                                          collection |-> collection.v]))])

\* a template that has neither count nor for_each is one resource
Plain_expand(name, template, symbols) ==
    Resolved(<<Instance(name, template, <<>>, symbols)>>)

Expand(meta, name, template, symbols) ==
    CASE meta = "count" -> CountExpander_expand(name, template, symbols)
      [] meta = "for_each" -> ForEachExpander_expand(name, template, symbols)
      [] meta = "none" -> Plain_expand(name, template, symbols)

\* the templates of one meta-argument expanded in declaration order, each by
\* its own call of the expander; the first error ends the pass
RECURSIVE ExpandAll(_, _, _, _, _)
ExpandAll(meta, ts, i, symbols, acc) ==
    IF i > Len(ts) THEN Value(acc)
    ELSE IF ts[i].meta # meta THEN ExpandAll(meta, ts, i + 1, symbols, acc)
    ELSE LET r == Expand(meta, i, ts[i], symbols)
         IN IF ~r.ok THEN r
            ELSE ExpandAll(meta, ts, i + 1, symbols, acc \o r.v)

\* mutant: the loop context of the last instance stays in the run's table
Expansion_KeepsBinding(e, meta) ==
    LET r == ExpandAll(meta, e.config.templates, 1, e.symbols, e.resources)
        last == IF r.ok /\ r.v # <<>> THEN r.v[Len(r.v)].index ELSE <<>>
    IN IF ~r.ok THEN Fail(e, r.err)
       ELSE IF last # <<>> /\ last[1] = "count"
       THEN [Advance(e) EXCEPT !.resources = r.v,
                               !.symbols = Bind(@, [index |-> last[2]])]
       ELSE [Advance(e) EXCEPT !.resources = r.v]

\* the engine after the expansion pass of one meta-argument
Expansion(e, meta) ==
    LET r == ExpandAll(meta, e.config.templates, 1, e.symbols, e.resources)
    IN IF ~r.ok THEN Fail(e, r.err)
       ELSE [Advance(e) EXCEPT !.resources = r.v]

\* Expand Count
expand_count ==
    /\ eng.stage = "ConditionalsResolved"
    /\ eng' = Expansion(eng, "count")
    /\ UNCHANGED notEngine

\* Expand For_Each
expand_for_each ==
    /\ eng.stage = "CountExpanded"
    /\ eng' = Expansion(eng, "for_each")
    /\ UNCHANGED notEngine

\* Finalize: the final resource list
finalize ==
    /\ eng.stage = "ForEachExpanded"
    /\ eng' = Expansion(eng, "none")
    /\ UNCHANGED notEngine

\* the Cost Result of one concrete resource
CostResultOf(resource) ==
    [resource_id |-> <<resource.name, resource.index>>,
     status |-> IF resource.rtype = "aws_instance" THEN "Supported" ELSE "Unsupported"]

\* pricing of the next concrete resource of a finalized run
price_resource ==
    /\ eng.stage = "Finalized"
    /\ eng.outcome = "none"
    /\ Len(eng.results) < Len(eng.resources)
    /\ eng' = [eng EXCEPT !.results =
                   Append(@, CostResultOf(eng.resources[Len(eng.results) + 1]))]
    /\ UNCHANGED notEngine

\* the report is returned when every resource has its Cost Result
return_report ==
    /\ eng.stage = "Finalized"
    /\ eng.outcome = "none"
    /\ Len(eng.results) = Len(eng.resources)
    /\ eng' = [eng EXCEPT !.outcome = "Report"]
    /\ UNCHANGED notEngine

----------------------------------------------------------------------------
(* Cost analytics *)

ResourceStatus == {"SUPPORTED", "UNSUPPORTED", "ERROR"}

ResourceTypes == {"aws_instance", "aws_s3_bucket"}

ServiceCodes == {"AmazonEC2", "AmazonS3"}

AnalyticsRegions == {"us-east-1", "us-west-2"}

\* the service a resource type belongs to
ServiceCodeOf(resource_type) ==
    IF resource_type = "aws_instance" THEN "AmazonEC2" ELSE "AmazonS3"

\* ResourceCostResult: monthly_cost is a field of every result, whatever
\* the status
ResourceCostResult ==
    {[resource_type |-> t, status |-> st, monthly_cost |-> c,
      service_code |-> ServiceCodeOf(t), region |-> g] :
        t \in ResourceTypes, st \in ResourceStatus,
        c \in 0..MaxCost, g \in AnalyticsRegions}

\* a breakdown is a dictionary from a key to an amount
EmptyBreakdown == [k \in {} |-> 0]

Amount(d, k) == IF k \in DOMAIN d THEN d[k] ELSE 0

AddAmount(d, k, amount) ==
    [x \in DOMAIN d \cup {k} |-> IF x = k THEN Amount(d, k) + amount ELSE d[x]]

\* mutant: a result counts when its monthly_cost is not zero
IncludedWhenCostNotZero(r) == r.monthly_cost # 0

\* Aggregation Rules: only SUPPORTED is included in totals
IncludedInTotals(r) == r.status = "SUPPORTED"

EmptyAnalytics ==
    [total_monthly_cost |-> 0, total_resources |-> 0,
     total_supported_resources |-> 0,
     cost_by_service |-> EmptyBreakdown, cost_by_region |-> EmptyBreakdown,
     cost_by_resource_type |-> EmptyBreakdown,
     unsupported_resources |-> <<>>, error_resources |-> <<>>]

\* one result taken into the analytics
AggregateOne(a, r) ==
    LET counted == [a EXCEPT !.total_resources = @ + 1]
    IN IF IncludedInTotals(r)
       THEN [counted EXCEPT
                !.total_monthly_cost = @ + r.monthly_cost,
                !.total_supported_resources = @ + 1,
                !.cost_by_service = AddAmount(@, r.service_code, r.monthly_cost),
                !.cost_by_region = AddAmount(@, r.region, r.monthly_cost),
                !.cost_by_resource_type =
                    AddAmount(@, r.resource_type, r.monthly_cost)]
       ELSE IF r.status = "UNSUPPORTED"
       THEN [counted EXCEPT !.unsupported_resources = Append(@, r)]
       ELSE [counted EXCEPT !.error_resources = Append(@, r)]

\* CostAggregator(results).aggregate()
RECURSIVE aggregate(_)
aggregate(rs) ==
    IF rs = <<>> THEN EmptyAnalytics
    ELSE AggregateOne(aggregate(SubSeq(rs, 1, Len(rs) - 1)), rs[Len(rs)])

\* one more result is appended to the list and the list is aggregated
append_and_aggregate(r) ==
    /\ Len(results) < MaxResults
    /\ results' = Append(results, r)
    /\ analytics' = aggregate(results')
    /\ UNCHANGED notAnalytics

\* a percentage, kept exact as the quotient num / den
Percent(n, d) == [num |-> 100 * n, den |-> d]

Below100(p) == p.num < 100 * p.den

\* mutant: coverage over the resources that did not fail
coverage_percentage_OfPriced(a) ==
    Percent(a.total_supported_resources,
            a.total_resources - Len(a.error_resources))

\* analytics.coverage_percentage
coverage_percentage(a) == Percent(a.total_supported_resources, a.total_resources)

\* aggregator.get_missing_coverage(): services with unsupported resources,
\* count per service
RECURSIVE get_missing_coverage(_)
get_missing_coverage(unsupported) ==
    IF unsupported = <<>> THEN EmptyBreakdown
    ELSE AddAmount(get_missing_coverage(Tail(unsupported)),
                   Head(unsupported).service_code, 1)

\* the texts of the warnings; what a warning interpolates is a number
NotSupportedText == <<"resource(s) not supported by pricing engine">>
FailedText == <<"resource(s) failed cost calculation">>
CoverageText == <<"Pricing coverage:", "% - some resources excluded from totals">>

Warning(words, value) == [words |-> words, value |-> value]

\* mutant: the coverage warning is given for unsupported resources only
warnings_CoverageWhenUnsupported(a) ==
    (IF Len(a.unsupported_resources) > 0
     THEN <<Warning(NotSupportedText, Percent(Len(a.unsupported_resources), 100))>>
     ELSE <<>>)
    \o (IF Len(a.error_resources) > 0
        THEN <<Warning(FailedText, Percent(Len(a.error_resources), 100))>>
        ELSE <<>>)
    \o (IF Len(a.unsupported_resources) > 0
        THEN <<Warning(CoverageText, coverage_percentage(a))>>
        ELSE <<>>)

\* "warnings" of the API response; a count n is carried as Percent(n, 100)
warnings(a) ==
    (IF Len(a.unsupported_resources) > 0
     THEN <<Warning(NotSupportedText, Percent(Len(a.unsupported_resources), 100))>>
     ELSE <<>>)
    \o (IF Len(a.error_resources) > 0
        THEN <<Warning(FailedText, Percent(Len(a.error_resources), 100))>>
        ELSE <<>>)
    \o (IF Below100(coverage_percentage(a))
        THEN <<Warning(CoverageText, coverage_percentage(a))>>
        ELSE <<>>)

\* an entry of the response's lists of unsupported and error resources
ListedResource(r) ==
    [resource_type |-> r.resource_type, service_code |-> r.service_code]

\* API Response Format
api_response(a) ==
    [summary |->
        [total_monthly_cost |-> a.total_monthly_cost,
         total_resources |-> a.total_resources,
         supported_resources |-> a.total_supported_resources,
         unsupported_resources |-> Len(a.unsupported_resources),
         error_resources |-> Len(a.error_resources),
         coverage_percentage |-> coverage_percentage(a)],
     breakdowns |->
        [by_service |-> a.cost_by_service, by_region |-> a.cost_by_region],
     unsupported_resources |->
        [i \in DOMAIN a.unsupported_resources |->
            ListedResource(a.unsupported_resources[i])],
     error_resources |->
        [i \in DOMAIN a.error_resources |-> ListedResource(a.error_resources[i])],
     warnings |-> warnings(a)]

----------------------------------------------------------------------------
(* ResourceCostResult: validation on construction *)

NoText == "None"

\* one recorded step of a calculation
CalculationStep(description, formula, result, unit) ==
    [description |-> description, formula |-> formula, result |-> result,
     unit |-> unit]

\* the field values a caller can pass to the constructor
ResourceCostResultFields ==
    [status : ResourceStatus, monthly_cost : 0..MaxCost,
     pricing_rule_id : {NoRow, 1},
     calculation_steps : {<<>>, <<CalculationStep("Monthly cost", "rate * hours", 0, "USD/month")>>},
     unsupported_reason : {NoText, "no direct cost"},
     error_message : {NoText, "PricingMatchError"}]

\* mutant: SUPPORTED is checked for its pricing_rule_id only
StatusRequirementsRuleIdOnly(f) ==
    /\ f.status = "SUPPORTED" => f.pricing_rule_id # NoRow
    /\ f.status = "UNSUPPORTED" => f.unsupported_reason # NoText
    /\ f.status = "ERROR" => f.error_message # NoText

\* Validation Rules / Status-Specific Requirements
StatusRequirements(f) ==
    /\ f.status = "SUPPORTED" =>
          f.pricing_rule_id # NoRow /\ Len(f.calculation_steps) > 0
    /\ f.status = "UNSUPPORTED" => f.unsupported_reason # NoText
    /\ f.status = "ERROR" => f.error_message # NoText

\* ResourceCostResult(...): the object, or the error raised by its validation
NewResourceCostResult(f) ==
    IF StatusRequirements(f) THEN Value(f) ELSE Raise("ValueError")

NothingMade == [attempted |-> FALSE]

\* a caller constructs a result from field values of its choice
construct_result(f) ==
    /\ made' = [attempted |-> TRUE, fields |-> f, got |-> NewResourceCostResult(f)]
    /\ UNCHANGED notCostResult

----------------------------------------------------------------------------
(* Pricing adapter contract: validate, match_pricing, calculate *)

HoursPerMonth == 730

\* StrictEC2Adapter.supported_regions
supported_regions == {"us-east-1", "us-west-2"}

\* an instance type is the sequence of its parts between the dots:
\* absent, "t3micro", "t3.micro"
InstanceTypeValues == {<<>>, <<"t3micro">>, <<"t3", "micro">>}

\* price_per_unit and unit of a pricing row
RulePrices == [price_per_unit : -1..1, unit : {"Hrs", "GB-Mo"}]

\* a concrete resource of a run together with the price of the one pricing
\* row that has its attributes in the pinned version, if there is such a row
CalculatorInputs ==
    [resource_type : {"aws_vpc"}, instance_type : {<<>>},
     operating_system : {"Linux"}, tenancy : {"Shared"},
     region : {"us-east-1"}, priced : {<<>>}]
    \cup
    [resource_type : {"aws_instance"}, instance_type : InstanceTypeValues,
     operating_system : {"Linux"}, tenancy : {"Shared"},
     region : {"us-east-1", "eu-north-1"},
     priced : {<<>>} \cup {<<p>> : p \in RulePrices}]

\* the rows of pricing_ec2 the adapter's query runs against
PricingTableOf(resource) ==
    [i \in DOMAIN resource.priced |->
        [version_id |-> 1, instance_type |-> resource.instance_type,
         operating_system |-> resource.operating_system,
         tenancy |-> resource.tenancy, region |-> resource.region,
         capacity_status |-> NULL,
         price_per_unit |-> resource.priced[i].price_per_unit,
         unit |-> resource.priced[i].unit]]

\* StrictEC2Adapter.validate: required attributes, region, instance_type format
validate(resource) ==
    IF resource.instance_type = <<>> THEN Raise("ValidationError")
    ELSE IF resource.region \notin supported_regions THEN Raise("ValidationError")
    ELSE IF Len(resource.instance_type) < 2 THEN Raise("ValidationError")
    ELSE Value(resource)

\* mutant: the steps end with the hours of the month
CalculationStepsWithoutTotal(hourly_rate, hours, monthly_cost) ==
    <<CalculationStep("Hourly instance rate", "price_per_unit", hourly_rate, "USD/hour"),
      CalculationStep("Hours in month", "730 hours", hours, "hours")>>

\* steps = [hourly rate, hours, monthly cost]
CalculationSteps(hourly_rate, hours, monthly_cost) ==
    <<CalculationStep("Hourly instance rate", "price_per_unit", hourly_rate, "USD/hour"),
      CalculationStep("Hours in month", "730 hours", hours, "hours"),
      CalculationStep("Monthly cost", "hourly_rate * hours_per_month",
                      monthly_cost, "USD/month")>>

\* CostResult(...): validation on creation
CostResult(monthly_cost, pricing_rule_id, steps) ==
    IF monthly_cost < 0 \/ pricing_rule_id = NoRow \/ steps = <<>>
    THEN Raise("CalculationError")
    ELSE Value([monthly_cost |-> monthly_cost, pricing_rule_id |-> pricing_rule_id,
                unit |-> "USD/month", calculation_steps |-> steps])

\* StrictEC2Adapter.calculate
calculate(resource, rule) ==
    IF rule.unit # "Hrs" THEN Raise("UnitMismatchError")
    ELSE LET hourly_rate == rule.price_per_unit
             hours == HoursPerMonth
             monthly_cost == hourly_rate * hours
         IN CostResult(monthly_cost, rule.id,
                       CalculationSteps(hourly_rate, hours, monthly_cost))

\* adapter.calculate_cost: the full pipeline with validation
calculate_cost(resource) ==
    LET tbl == PricingTableOf(resource)
        valid == validate(resource)
        found == match_pricing(tbl, resource, 1)
    IN IF ~valid.ok THEN valid
       ELSE IF found.outcome # "PricingRule" THEN Raise(found.outcome)
       ELSE calculate(resource,
                      [id |-> found.row,
                       price_per_unit |-> tbl[found.row].price_per_unit,
                       unit |-> tbl[found.row].unit])

----------------------------------------------------------------------------
(* Cost calculator: one result per resource, errors handled per resource *)

\* Service Matcher: the resource types that have an adapter
AdapterTypes == {"aws_instance"}

ResultOf(resource_id, resource, fields) ==
    NewResourceCostResult(
        [resource_id |-> resource_id, resource_type |-> resource.resource_type,
         service_code |-> ServiceCodeOf(resource.resource_type),
         region |-> resource.region] @@ fields)

\* mutant: a zero cost is reported as not supported
SupportedResultUnlessZero(resource_id, resource, cost) ==
    ResultOf(resource_id, resource,
        [status |-> IF cost.monthly_cost = 0 THEN "UNSUPPORTED" ELSE "SUPPORTED",
         monthly_cost |-> cost.monthly_cost,
         pricing_rule_id |-> cost.pricing_rule_id,
         calculation_steps |-> cost.calculation_steps,
         unsupported_reason |-> IF cost.monthly_cost = 0 THEN "no cost" ELSE NoText,
         error_message |-> NoText])

\* the result of a resource whose cost was calculated: status is explicit
SupportedResult(resource_id, resource, cost) ==
    ResultOf(resource_id, resource,
        [status |-> "SUPPORTED", monthly_cost |-> cost.monthly_cost,
         pricing_rule_id |-> cost.pricing_rule_id,
         calculation_steps |-> cost.calculation_steps,
         unsupported_reason |-> NoText, error_message |-> NoText])

UnsupportedResult(resource_id, resource, reason) ==
    ResultOf(resource_id, resource,
        [status |-> "UNSUPPORTED", monthly_cost |-> 0, pricing_rule_id |-> NoRow,
         calculation_steps |-> <<>>, unsupported_reason |-> reason,
         error_message |-> NoText])

ErrorResult(resource_id, resource, error) ==
    ResultOf(resource_id, resource,
        [status |-> "ERROR", monthly_cost |-> 0, pricing_rule_id |-> NoRow,
         calculation_steps |-> <<>>, unsupported_reason |-> NoText,
         error_message |-> error])

\* the calculator on one resource: the adapter's result, or its error turned
\* into the result of this resource
calculate_resource(resource_id, resource) ==
    IF resource.resource_type \notin AdapterTypes
    THEN UnsupportedResult(resource_id, resource, "Resource type not supported")
    ELSE LET cost == calculate_cost(resource)
         IN IF cost.ok THEN SupportedResult(resource_id, resource, cost.v)
            ELSE ErrorResult(resource_id, resource, cost.err)

IdleCalculator ==
    [pc |-> "idle", resources |-> <<>>, results |-> <<>>,
     analytics |-> EmptyAnalytics]

\* mutant: the first resource that fails ends the run
RecordResultOrAbort(c, result) ==
    IF result.v.status = "ERROR" THEN [c EXCEPT !.pc = "aborted"]
    ELSE [c EXCEPT !.results = Append(@, result.v)]

\* error handling per resource: the result is recorded and the run goes on
RecordResult(c, result) == [c EXCEPT !.results = Append(@, result.v)]

\* a run over the concrete resources of a submission begins
calculator_start ==
    /\ calc.pc = "idle"
    /\ \E resources \in SeqsUpTo(CalculatorInputs, MaxResources) :
          calc' = [calc EXCEPT !.pc = "calculating", !.resources = resources]
    /\ UNCHANGED notCalculator

\* the next resource is calculated
calculator_step ==
    /\ calc.pc = "calculating"
    /\ Len(calc.results) < Len(calc.resources)
    /\ LET i == Len(calc.results) + 1
       IN calc' = RecordResult(calc, calculate_resource(i, calc.resources[i]))
    /\ UNCHANGED notCalculator

\* every resource has its result: the results are aggregated
calculator_finish ==
    /\ calc.pc = "calculating"
    /\ Len(calc.results) = Len(calc.resources)
    /\ calc' = [calc EXCEPT !.pc = "done", !.analytics = aggregate(calc.results)]
    /\ UNCHANGED notCalculator

----------------------------------------------------------------------------
(* Web client: the project store *)

ServiceTypes == {"ec2", "s3"}

\* the fields of a service's configuration form and the values entered
Fields == {"instances"}
FieldValues == {1, 2}

\* config: {}
EmptyConfig == [x \in {} |-> 0]

\* { ...prev, [field]: value }
WithField(prev, field, value) ==
    [x \in DOMAIN prev \cup {field} |-> IF x = field THEN value ELSE prev[x]]

\* generateId(): an id that was not handed out before
generateId == generated + 1

\* the node of a service that was just added: its config is empty
NewNode(id, service_type) ==
    [id |-> id, service_type |-> service_type, config |-> EmptyConfig]

\* { ...node, data: { ...node.data, config } } for the node of the id
WithConfig(nodes, id, config) ==
    [i \in DOMAIN nodes |->
        IF nodes[i].id = id THEN [nodes[i] EXCEPT !.config = config] ELSE nodes[i]]

null == 0

EmptyStore ==
    [nodes |-> <<>>, edges |-> <<>>, selectedNodeId |-> null, estimate |-> null,
     isCalculating |-> FALSE]

NodeIds(nodes) == {nodes[i].id : i \in DOMAIN nodes}

\* addNode(node); the caller took the node's id from generateId()
addNode(node) ==
    /\ generated < MaxNodes
    /\ store' = [store EXCEPT !.nodes = Append(@, node)]
    /\ generated' = generated + 1
    /\ UNCHANGED notProjectStore

\* removeNode(id)
removeNode(id) ==
    /\ store' = [store EXCEPT
          !.nodes = SelectSeq(@, LAMBDA n : n.id # id),
          !.edges = SelectSeq(@, LAMBDA e : e.source # id /\ e.target # id),
          !.selectedNodeId = IF @ = id THEN null ELSE @]
    /\ UNCHANGED <<generated, notProjectStore>>

\* addEdge(edge), for a connection drawn between two nodes of the store
addEdge(edge) ==
    /\ Len(store.edges) < MaxEdges
    /\ edge.source \in NodeIds(store.nodes)
    /\ edge.target \in NodeIds(store.nodes)
    /\ store' = [store EXCEPT !.edges = Append(@, edge)]
    /\ UNCHANGED <<generated, notProjectStore>>

\* removeEdge(source, target)
removeEdge(source, target) ==
    /\ store' = [store EXCEPT !.edges =
          SelectSeq(@, LAMBDA e : ~(e.source = source /\ e.target = target))]
    /\ UNCHANGED <<generated, notProjectStore>>

\* clearGraph()
clearGraph ==
    /\ store' = [store EXCEPT !.nodes = <<>>, !.edges = <<>>,
                              !.selectedNodeId = null, !.estimate = null]
    /\ UNCHANGED <<generated, notProjectStore>>

\* setSelectedNodeId(id), for a node of the store or null
setSelectedNodeId(id) ==
    /\ id \in NodeIds(store.nodes) \cup {null}
    /\ store' = [store EXCEPT !.selectedNodeId = id]
    /\ UNCHANGED <<generated, notProjectStore>>

\* ConfigurationPanel.handleRemoveService(nodeId), the trash button of a
\* listed node: setNodes(nodes.filter((n) => n.id !== nodeId))
handleRemoveService(nodeId) ==
    /\ nodeId \in NodeIds(store.nodes)
    /\ store' = [store EXCEPT !.nodes = SelectSeq(@, LAMBDA n : n.id # nodeId)]
    /\ UNCHANGED <<generated, notProjectStore>>

----------------------------------------------------------------------------
(* Web client: ProjectEditor and its ServiceConfigDialog *)

\* useNodesState([]), useState<Node | null>(null), useState(false)
\* no node is selected
NoNode == [id |-> null]

NewEditor == [nodes |-> <<>>, selectedNode |-> NoNode, configDialogOpen |-> FALSE]

\* the dialog is rendered only once a node has been selected
Unmounted == [mounted |-> FALSE, config |-> EmptyConfig]

NoRequest == [pending |-> FALSE, services |-> <<>>, dependencies |-> <<>>]

\* useState(currentConfig || {}): the initial value is taken when the
\* component mounts and ignored by every later render
useState_config(d, currentConfig) ==
    IF d.mounted THEN d ELSE [mounted |-> TRUE, config |-> currentConfig]

\* onDrop: a service of the catalog is dropped on the canvas (the open dialog
\* covers the canvas)
onDrop(service_type) ==
    /\ ~editor.configDialogOpen
    /\ generated < MaxNodes
    /\ editor' = [editor EXCEPT !.nodes = Append(@, NewNode(generateId, service_type))]
    /\ generated' = generated + 1
    /\ UNCHANGED <<store, dialog, request, notProjectEditor>>

\* onNodeDoubleClick on the i-th node of the canvas, and the render that
\* follows
onNodeDoubleClick(i) ==
    /\ ~editor.configDialogOpen
    /\ i \in DOMAIN editor.nodes
    /\ editor' = [editor EXCEPT !.selectedNode = editor.nodes[i],
                                !.configDialogOpen = TRUE]
    /\ dialog' = useState_config(dialog, editor.nodes[i].config)
    /\ UNCHANGED <<generated, store, request, notProjectEditor>>

\* ServiceConfigDialog.handleChange(field, value)
handleChange(field, value) ==
    /\ editor.configDialogOpen
    /\ dialog' = [dialog EXCEPT !.config = WithField(@, field, value)]
    /\ UNCHANGED <<generated, store, editor, request, notProjectEditor>>

\* ServiceConfigDialog.handleSubmit: onSave(config), which is saveNodeConfig,
\* then onClose()
handleSubmit ==
    /\ editor.configDialogOpen
    /\ editor' = [editor EXCEPT
          !.nodes = IF editor.selectedNode.id = null THEN @
                    ELSE WithConfig(@, editor.selectedNode.id, dialog.config),
          !.configDialogOpen = FALSE]
    /\ UNCHANGED <<generated, store, dialog, request, notProjectEditor>>

\* onClose of the X and the Cancel button
onClose ==
    /\ editor.configDialogOpen
    /\ editor' = [editor EXCEPT !.configDialogOpen = FALSE]
    /\ UNCHANGED <<generated, store, dialog, request, notProjectEditor>>

\* the services of an estimate request
ServicesOf(nodes) ==
    [i \in DOMAIN nodes |->
        [id |-> nodes[i].id, service_type |-> nodes[i].service_type,
         config |-> nodes[i].config, region |-> "us-east-1"]]

DependenciesOf(edges) ==
    [i \in DOMAIN edges |->
        [source |-> edges[i].source, target |-> edges[i].target,
         type |-> "dependency"]]

\* the 'Calculate Cost' button: disabled while the mutation is pending or the
\* store has no node; mutationFn sends the store's nodes and edges
calculateMutation_mutate ==
    /\ ~editor.configDialogOpen
    /\ ~request.pending
    /\ Len(store.nodes) # 0
    /\ store' = [store EXCEPT !.isCalculating = TRUE]
    /\ request' = [pending |-> TRUE, services |-> ServicesOf(store.nodes),
                   dependencies |-> DependenciesOf(store.edges)]
    /\ UNCHANGED <<generated, editor, dialog, notProjectEditor>>

\* the estimate the server returns for a request
EstimateOf(req) == [services |-> Len(req.services)]

\* onSuccess(data)
onSuccess ==
    /\ request.pending
    /\ store' = [store EXCEPT !.estimate = EstimateOf(request),
                              !.isCalculating = FALSE]
    /\ request' = [request EXCEPT !.pending = FALSE]
    /\ UNCHANGED <<generated, editor, dialog, notProjectEditor>>

\* onError(error)
onError ==
    /\ request.pending
    /\ store' = [store EXCEPT !.isCalculating = FALSE]
    /\ request' = [request EXCEPT !.pending = FALSE]
    /\ UNCHANGED <<generated, editor, dialog, notProjectEditor>>

----------------------------------------------------------------------------
(* Web client: GenericCalculator and its pricing requests *)

PricingRegions == {"us-east-1", "us-west-2"}

\* the value of the one attribute filter; "" is "Any"
FilterValues == {"", "Linux"}

\* /api/pricing/${serviceId}?region=..&page=..&page_size=20&<filters>
PricingQuery(region, filters, page) ==
    [region |-> region, filters |-> filters, page |-> page]

\* what the server answers to a query: the items of that page, and the
\* number of pages of the query's region and filters
ItemsOf(query) == <<query>>

TotalPagesOf(query) ==
    IF query.region = "us-east-1" /\ query.filters = "" THEN MaxPages ELSE 1

\* the component after its first render and the effects of that render: the
\* first page of us-east-1 has been requested
Mounted ==
    [region |-> "us-east-1", filters |-> "", page |-> 1, pricingOptions |-> <<>>,
     totalPages |-> 1, loadingItems |-> TRUE,
     inflight |-> <<PricingQuery("us-east-1", "", 1)>>]

\* the effects of a render in which region or filters changed: "Reset
\* pagination" sets the page to 1, "Load Pricing" fetches with the page of
\* that render, and fetches again in the render that has the new page
AfterFiltersChange(g, region, filters) ==
    [g EXCEPT !.region = region, !.filters = filters, !.page = 1,
              !.loadingItems = TRUE,
              !.inflight = @ \o <<PricingQuery(region, filters, g.page)>>
                             \o (IF g.page # 1
                                 THEN <<PricingQuery(region, filters, 1)>>
                                 ELSE <<>>)]

\* the effect of a render in which only the page changed
AfterPageChange(g, page) ==
    IF page = g.page THEN g
    ELSE [g EXCEPT !.page = page, !.loadingItems = TRUE,
                   !.inflight = Append(@, PricingQuery(g.region, g.filters, page))]

\* the region select: onChange={(e) => setRegion(e.target.value)}
setRegion(region) ==
    /\ region # gcal.region
    /\ LET g == AfterFiltersChange(gcal, region, gcal.filters)
       IN Len(g.inflight) <= MaxInflight /\ gcal' = g
    /\ UNCHANGED notGenericCalculator

\* handleFilterChange(key, value) from an attribute select
handleFilterChange(value) ==
    /\ value # gcal.filters
    /\ LET g == AfterFiltersChange(gcal, gcal.region, value)
       IN Len(g.inflight) <= MaxInflight /\ gcal' = g
    /\ UNCHANGED notGenericCalculator

\* handleClearFilters: setFilters({}) is a new object on every call
handleClearFilters ==
    /\ LET g == AfterFiltersChange(gcal, gcal.region, "")
       IN Len(g.inflight) <= MaxInflight /\ gcal' = g
    /\ UNCHANGED notGenericCalculator

\* the Previous button, disabled on page 1: setPage(p => Math.max(1, p - 1))
previous_page ==
    /\ gcal.page # 1
    /\ Len(gcal.inflight) < MaxInflight
    /\ gcal' = AfterPageChange(gcal, IF gcal.page - 1 < 1 THEN 1 ELSE gcal.page - 1)
    /\ UNCHANGED notGenericCalculator

\* the Next button, disabled on the last page:
\* setPage(p => Math.min(totalPages, p + 1))
next_page ==
    /\ gcal.page < gcal.totalPages
    /\ Len(gcal.inflight) < MaxInflight
    /\ gcal' = AfterPageChange(gcal, IF gcal.page + 1 > gcal.totalPages
                                     THEN gcal.totalPages ELSE gcal.page + 1)
    /\ UNCHANGED notGenericCalculator

\* the response to the i-th request in flight arrives: .then(data => ...)
pricing_response(i) ==
    /\ i \in DOMAIN gcal.inflight
    /\ gcal' = [gcal EXCEPT
          !.pricingOptions = ItemsOf(gcal.inflight[i]),
          !.totalPages = TotalPagesOf(gcal.inflight[i]),
          !.loadingItems = FALSE,
          !.inflight = SubSeq(@, 1, i - 1) \o SubSeq(@, i + 1, Len(@))]
    /\ UNCHANGED notGenericCalculator

----------------------------------------------------------------------------
(* Specifications of the catalog *)

Init ==
    /\ versions = <<>>
    /\ tx = [s \in Sessions |-> IdleTx]
    /\ ret = "none"
    /\ run = IdleRun
    /\ pricing_ec2 = <<>>
    /\ matched = NoMatch
    /\ eng = IdleEngine
    /\ results = <<>>
    /\ analytics = aggregate(results)
    /\ made = NothingMade
    /\ calc = IdleCalculator
    /\ loc = IdleLocals
    /\ generated = 0
    /\ store = EmptyStore
    /\ editor = NewEditor
    /\ dialog = Unmounted
    /\ request = NoRequest
    /\ gcal = Mounted

\* the manager's operations, activations running concurrently in every session
NextCatalog ==
    \/ create_draft_version
    \/ \E v \in 1..MaxVersions, ok \in BOOLEAN : validate_version(v, ok)
    \/ \E v \in 1..MaxVersions : archive_version(v)
    \/ \E s \in Sessions, v \in 1..MaxVersions, force \in BOOLEAN : activate_begin(s, v, force)
    \/ \E s \in Sessions : activate_commit(s)

SpecCatalog == Init /\ [][NextCatalog]_vars

\* a calculation run while one session changes the catalog
NextRun ==
    \/ create_draft_version
    \/ \E v \in 1..MaxVersions, ok \in BOOLEAN : validate_version(v, ok)
    \/ \E v \in 1..MaxVersions : activate_begin(1, v, FALSE)
    \/ activate_commit(1)
    \/ run_start
    \/ run_price
    \/ run_finish

SpecRun == Init /\ [][NextRun]_vars

\* the manager in one session and an operator's direct updates of is_active
NextDirectSql ==
    \/ create_draft_version
    \/ \E v \in 1..MaxVersions, ok \in BOOLEAN : validate_version(v, ok)
    \/ \E v \in 1..MaxVersions : archive_version(v)
    \/ \E v \in 1..MaxVersions, force \in BOOLEAN : activate_begin(1, v, force)
    \/ activate_commit(1)
    \/ \E v \in 1..MaxVersions, b \in BOOLEAN : update_is_active(v, b)

SpecDirectSql == Init /\ [][NextDirectSql]_vars

\* the resolution of the locals of a configuration
NextLocals ==
    \/ locals_start
    \/ locals_pass

SpecLocals == Init /\ [][NextLocals]_vars

\* the operations of the project store and ConfigurationPanel's remove
NextProjectStore ==
    \/ \E t \in ServiceTypes : addNode(NewNode(generateId, t))
    \/ \E id \in 1..MaxNodes : removeNode(id)
    \/ \E source, target \in 1..MaxNodes :
          addEdge([source |-> source, target |-> target])
    \/ \E source, target \in 1..MaxNodes : removeEdge(source, target)
    \/ clearGraph
    \/ \E id \in 0..MaxNodes : setSelectedNodeId(id)
    \/ \E id \in 1..MaxNodes : handleRemoveService(id)

SpecProjectStore == Init /\ [][NextProjectStore]_vars

\* ProjectEditor with its dialog, next to a store that other components fill
NextProjectEditor ==
    \/ \E t \in ServiceTypes : onDrop(t)
    \/ \E i \in 1..MaxNodes : onNodeDoubleClick(i)
    \/ \E field \in Fields, value \in FieldValues : handleChange(field, value)
    \/ handleSubmit
    \/ onClose
    \/ \E t \in ServiceTypes : addNode(NewNode(generateId, t))
    \/ calculateMutation_mutate
    \/ onSuccess
    \/ onError

SpecProjectEditor == Init /\ [][NextProjectEditor]_vars

\* GenericCalculator: the user's changes and the responses, in any order
NextGenericCalculator ==
    \/ \E region \in PricingRegions : setRegion(region)
    \/ \E value \in FilterValues : handleFilterChange(value)
    \/ handleClearFilters
    \/ previous_page
    \/ next_page
    \/ \E i \in 1..MaxInflight : pricing_response(i)

SpecGenericCalculator == Init /\ [][NextGenericCalculator]_vars

\* ingestion of pricing rows and matches against them
NextPricing ==
    \/ \E row \in Ec2Rows : insert_pricing_ec2(row)
    \/ \E resource \in Ec2Resources, version \in 1..MaxVersions :
          call_match_pricing(resource, version)

SpecPricing == Init /\ [][NextPricing]_vars

NextEngine ==
    \/ start_evaluation
    \/ resolve_variables
    \/ resolve_locals
    \/ evaluate_conditionals
    \/ expand_count
    \/ expand_for_each
    \/ finalize
    \/ price_resource
    \/ return_report

SpecEngine == Init /\ [][NextEngine]_vars

\* the stages of the engine on templates whose attributes refer to the loop
\* context
NextReferences ==
    \/ start_evaluation_with_references
    \/ resolve_variables
    \/ resolve_locals
    \/ evaluate_conditionals
    \/ expand_count
    \/ expand_for_each
    \/ finalize

SpecReferences == Init /\ [][NextReferences]_vars

NextAnalytics ==
    \E r \in ResourceCostResult : append_and_aggregate(r)

SpecAnalytics == Init /\ [][NextAnalytics]_vars

NextCostResult ==
    \E f \in ResourceCostResultFields : construct_result(f)

SpecCostResult == Init /\ [][NextCostResult]_vars

NextCalculator ==
    \/ calculator_start
    \/ calculator_step
    \/ calculator_finish

SpecCalculator == Init /\ [][NextCalculator]_vars

Spec == SpecCatalog

----------------------------------------------------------------------------
(* Claims about the catalog *)

Statuses(tbl) == [i \in DOMAIN tbl |-> tbl[i].status]

\* C1: in every reachable state of the catalog, after any sequence of
\* create-draft, validate, activate and archive operations, at most one
\* version has status ACTIVE.
C1_AtMostOneActive == Cardinality(ActiveIds(versions)) <= 1

\* an activation has replaced an earlier ACTIVE version and one more is in flight
C1_Witness ==
    /\ \E i \in DOMAIN versions : versions[i].status = "ACTIVE"
    /\ \E i \in DOMAIN versions : versions[i].status = "ARCHIVED"
    /\ \E s \in Sessions : tx[s].pc = "open"

\* the attempt of session s succeeded in this step: its target became ACTIVE,
\* every version that was ACTIVE is ARCHIVED, no other status changed
FullySucceeds(s) ==
    /\ versions'[tx[s].target].status = "ACTIVE"
    /\ \A i \in DOMAIN versions :
          i # tx[s].target =>
             versions'[i].status =
                IF versions[i].status = "ACTIVE" THEN "ARCHIVED" ELSE versions[i].status

\* C2: for every interleaving of concurrent activate_version attempts, no
\* state has two ACTIVE versions, and each attempt that ends either fully
\* succeeds (previous ACTIVE archived, target ACTIVE) or leaves every
\* version's status unchanged.
C2_ConcurrentActivationExcluded ==
    [][ /\ Cardinality(ActiveIds(versions')) <= 1
        /\ \A s \in Sessions :
              (tx[s].pc = "open" /\ tx'[s].pc = "idle") =>
                 \/ FullySucceeds(s)
                 \/ Statuses(versions') = Statuses(versions) ]_vars

\* two attempts on different versions are in flight and one of them read an
\* ACTIVE version that another activation has replaced since
C2_Witness ==
    \E s1, s2 \in Sessions :
        /\ s1 # s2
        /\ tx[s1].pc = "open" /\ tx[s2].pc = "open"
        /\ tx[s1].target # tx[s2].target
        /\ tx[s1].cur # get_active_version(versions)

\* some version became ACTIVE in this step and every version that was ACTIVE
\* became ARCHIVED, nothing else changed
Swapped ==
    \E v \in DOMAIN versions :
        /\ versions[v].status # "ACTIVE"
        /\ versions'[v].status = "ACTIVE"
        /\ \A i \in DOMAIN versions \ {v} :
              versions'[i] = IF versions[i].status = "ACTIVE"
                             THEN UpdateStatus(versions[i], "ARCHIVED")
                             ELSE versions[i]

\* an activate_version call returns from its transaction in this step
Returns == \E s \in Sessions : tx[s].pc = "open" /\ tx'[s].pc = "idle"

\* C3: activate_version is atomic: when it returns, either the previously
\* ACTIVE version is ARCHIVED and the target is ACTIVE (success), or no
\* version has changed (error); no step leaves the old version ARCHIVED
\* without the new one ACTIVE.
C3_ActivationAtomic ==
    [][ /\ Returns =>
              \/ versions' = versions
              \/ (Swapped /\ ret' = "ok")
        /\ (tx' # tx /\ ~Returns) => versions' = versions ]_vars

\* an activation that had buffered the archive of the ACTIVE version returned
\* an error
C3_Witness ==
    /\ ret \in {"MultipleActiveVersionsError", "IntegrityError"}
    /\ \E i \in DOMAIN versions : versions[i].status = "ACTIVE"

\* C4: within one run the active version id is resolved once, and every
\* pricing query of the run uses that pinned id, also when another version is
\* activated while the run is in flight.
C4_RunUsesPinnedVersion ==
    /\ \A i \in 1..Len(run.used) : run.used[i] = run.pinned
    /\ run.pc = "pricing" => run.pinned # NoVersion

\* a query of the run was made after the ACTIVE version had changed
C4_Witness == run.pc = "pricing" /\ run.moved /\ Len(run.used) >= 2

\* C12: in every reachable state of the catalog exactly one version is
\* ACTIVE.
C12_ExactlyOneActive == Cardinality(ActiveIds(versions)) = 1

StatusRank(st) ==
    CASE st = "DRAFT" -> 1 [] st = "VALIDATED" -> 2 [] st = "ACTIVE" -> 3
      [] st = "ARCHIVED" -> 4

C19_ActiveNotArchivedDirectly ==
    [][ /\ \A v \in DOMAIN versions :
              (versions[v].status = "ACTIVE" /\ archive_version(v)) =>
                 /\ versions' = versions
                 /\ ret' = "VersionTransitionError: cannot archive"
        /\ \A i \in DOMAIN versions :
              (versions[i].status = "ACTIVE" /\ versions'[i].status # "ACTIVE") =>
                 /\ versions'[i].status = "ARCHIVED"
                 /\ \E j \in DOMAIN versions \ {i} :
                       /\ versions[j].status # "ACTIVE"
                       /\ versions'[j].status = "ACTIVE" ]_vars

\* archive_version was called on the ACTIVE version and was rejected
C19_Witness ==
    /\ ret = "VersionTransitionError: cannot archive"
    /\ \E i \in DOMAIN versions : versions[i].status = "ACTIVE"
    /\ \A i \in DOMAIN versions : versions[i].status # "ARCHIVED"

----------------------------------------------------------------------------
(* Claims about the pricing rows and the matcher *)

\* C8: within one catalog version, for every combination of the matching
\* attributes of a compute resource (instance type, operating system, tenancy,
\* region), at most one pricing row matches, after any sequence of insertions
\* the uniqueness constraint accepts (rows with capacity_status NULL included).
C8_AtMostOneRowMatches ==
    \A version \in 1..MaxVersions, resource \in Ec2Resources :
        Cardinality(MatchingRows(pricing_ec2, resource, version)) <= 1

\* C9: match returns a pricing row only when exactly one row of the version
\* matches; with no matching row it fails with PricingMatchError, with more
\* than one it fails with a consistency error; it never returns one of
\* several rows, nor no row.
C9_MatchExactlyOneOrFail ==
    [][ matched'.called =>
           LET rows == MatchingRows(pricing_ec2', matched'.resource, matched'.version)
               got == matched'.result
           IN /\ got.outcome = "PricingRule" <=> Cardinality(rows) = 1
              /\ got.outcome = "PricingRule" => rows = {got.row}
              /\ got.outcome = "PricingMatchError" <=> rows = {}
              /\ got.outcome = "MultipleResultsFound" <=> Cardinality(rows) > 1
              /\ got.outcome # "PricingRule" => got.row = NoRow ]_<<matched>>

\* a match found several rows for one resource and raised
C9_Witness ==
    /\ matched.called
    /\ matched.result.outcome = "MultipleResultsFound"
    /\ Cardinality(MatchingRows(pricing_ec2, matched.resource, matched.version)) > 1

----------------------------------------------------------------------------
(* Evaluation engine *)

Running == eng.stage \notin {"Idle", "Failed", "Finalized"}

C6_ReportOrFatalError ==
    /\ eng.outcome = "Report" =>
          /\ eng.stage = "Finalized"
          /\ eng.error = "none"
          /\ Len(eng.results) = Len(eng.resources)
          /\ \A i \in 1..Len(eng.resources) :
                eng.results[i].resource_id
                    = <<eng.resources[i].name, eng.resources[i].index>>
    /\ eng.stage = "Failed" =>
          /\ eng.outcome = "FatalError"
          /\ eng.error # "none"
          /\ eng.resources = <<>>
          /\ eng.results = <<>>
    /\ eng.outcome = "FatalError" => eng.stage = "Failed"

\* a report of several resources has been returned
C6_Witness ==
    /\ eng.outcome = "Report"
    /\ Len(eng.results) >= 2

\* the instances that came from a count or a for_each template
Expanded(resources) == {i \in 1..Len(resources) : resources[i].index # <<>>}

\* C7: the expansion limit is one ceiling for the instances of the whole
\* run: a finalized run has at most max_expansion instances of count and
\* for_each templates together.
C7_LimitSharedAcrossRun ==
    eng.stage = "Finalized" => Cardinality(Expanded(eng.resources)) <= max_expansion

\* what following the references from local l leads to within fuel steps:
\* the literal, or 0 when they do not end in one
RECURSIVE Follow(_, _, _)
Follow(decls, l, fuel) ==
    IF decls[l][1] = "lit" THEN decls[l][2]
    ELSE IF fuel = 0 THEN 0
    ELSE Follow(decls, decls[l][2], fuel - 1)

Acyclic(decls) == \A l \in DOMAIN decls : Follow(decls, l, Len(decls)) # 0

\* C25: locals resolution terminates (no resolution takes more than one pass
\* per local plus the pass that finds nothing left to do); when the
\* references among the locals have no cycle it ends with every local
\* resolved to the literal its references lead to, whatever the order of
\* declaration; when they have a cycle it ends in Failed with
\* InvalidExpression and with no resolved locals.
C25_LocalsResolutionTerminates ==
    /\ loc.passes <= Len(loc.decls) + 1
    /\ loc.pc = "Resolving" => loc.passes <= Len(loc.decls)
    /\ loc.pc \in {"LocalsResolved", "Failed"} =>
          IF Acyclic(loc.decls)
          THEN /\ loc.pc = "LocalsResolved"
               /\ DOMAIN loc.resolved = DOMAIN loc.decls
               /\ \A l \in DOMAIN loc.decls :
                     loc.resolved[l] = Follow(loc.decls, l, Len(loc.decls))
          ELSE /\ loc.pc = "Failed"
               /\ loc.error = "InvalidExpression"
               /\ loc.resolved = NoLocals

\* three locals, each declared before the one it refers to, have been
\* resolved in three passes and a fourth
C25_Witness ==
    /\ loc.pc = "LocalsResolved"
    /\ loc.decls = <<<<"ref", 2>>, <<"ref", 3>>, <<"lit", 7>>>>
    /\ loc.passes = 4

----------------------------------------------------------------------------
(* Cost analytics *)

\* the sum of monthly_cost over the SUPPORTED results whose field has the key
RECURSIVE SupportedSum(_, _, _)
SupportedSum(rs, key, field) ==
    IF rs = <<>> THEN 0
    ELSE SupportedSum(Tail(rs), key, field)
            + (IF /\ Head(rs).status = "SUPPORTED"
                  /\ (field = "all" \/ Head(rs)[field] = key)
               THEN Head(rs).monthly_cost ELSE 0)

TotalsOverSupportedOnly(rs, a) ==
    /\ a.total_monthly_cost = SupportedSum(rs, "any", "all")
    /\ \A t \in ResourceTypes :
          Amount(a.cost_by_resource_type, t) = SupportedSum(rs, t, "resource_type")
    /\ \A g \in AnalyticsRegions :
          Amount(a.cost_by_region, g) = SupportedSum(rs, g, "region")
    /\ \A c \in ServiceCodes :
          Amount(a.cost_by_service, c) = SupportedSum(rs, c, "service_code")

\* C10: after every aggregation the total and each breakdown (by resource
\* type, by region, by service) are the sums of monthly_cost over the
\* SUPPORTED results only, and appending an UNSUPPORTED or ERROR result,
\* whatever its monthly_cost, changes neither the total nor a breakdown.
C10_TotalsOverSupportedOnly ==
    [][ /\ TotalsOverSupportedOnly(results', analytics')
        /\ results'[Len(results')].status # "SUPPORTED" =>
              /\ analytics'.total_monthly_cost = analytics.total_monthly_cost
              /\ analytics'.cost_by_resource_type = analytics.cost_by_resource_type
              /\ analytics'.cost_by_region = analytics.cost_by_region
              /\ analytics'.cost_by_service = analytics.cost_by_service ]_<<results, analytics>>

\* an ERROR result with a monthly_cost that is not zero has been appended
\* to a list whose SUPPORTED results have a total that is not zero
C10_Witness ==
    /\ Len(results) >= 2
    /\ results[Len(results)].status = "ERROR"
    /\ results[Len(results)].monthly_cost > 0
    /\ analytics.total_monthly_cost > 0

\* the results of a list that have a status, in the order of the list
RECURSIVE WithStatus(_, _)
WithStatus(rs, st) ==
    IF rs = <<>> THEN <<>>
    ELSE (IF Head(rs).status = st THEN <<Head(rs)>> ELSE <<>>)
            \o WithStatus(Tail(rs), st)

\* C22: the aggregator places every result in exactly one of the supported,
\* unsupported and error partitions (the unsupported and the error list are
\* the results of that status, the supported count is the number of SUPPORTED
\* results), the three counts of the response sum to the number of results,
\* and coverage is the number of SUPPORTED results over the number of results.
C22_PartitionAndCoverage ==
    LET sm == api_response(analytics).summary
    IN /\ analytics.unsupported_resources = WithStatus(results, "UNSUPPORTED")
       /\ analytics.error_resources = WithStatus(results, "ERROR")
       /\ sm.supported_resources = Len(WithStatus(results, "SUPPORTED"))
       /\ sm.supported_resources + sm.unsupported_resources + sm.error_resources
             = Len(results)
       /\ sm.total_resources = Len(results)
       /\ sm.coverage_percentage
             = Percent(Len(WithStatus(results, "SUPPORTED")), Len(results))

\* one SUPPORTED and one ERROR result have been aggregated: coverage is 50%
C22_Witness ==
    /\ Len(results) = 2
    /\ Len(WithStatus(results, "SUPPORTED")) = 1
    /\ Len(WithStatus(results, "ERROR")) = 1
    /\ api_response(analytics).summary.coverage_percentage = Percent(1, 2)

\* the resource kinds a warning names in its text
KindsNamed(w) == {t \in ResourceTypes : \E i \in DOMAIN w.words : w.words[i] = t}

HasWarning(rsp, words) == \E i \in DOMAIN rsp.warnings : rsp.warnings[i].words = words

----------------------------------------------------------------------------
(* Cost Results *)

\* C13: every ResourceCostResult that exists meets the requirements of its
\* status: SUPPORTED has a pricing_rule_id and at least one calculation step,
\* UNSUPPORTED has its reason, ERROR has its message; an attempt to construct
\* a result that does not meet them raises and yields no object.
C13_ResultMeetsStatusRequirements ==
    made.attempted =>
        LET f == made.fields
            meets ==
                CASE f.status = "SUPPORTED" ->
                        f.pricing_rule_id # NoRow /\ f.calculation_steps # <<>>
                  [] f.status = "UNSUPPORTED" -> f.unsupported_reason # NoText
                  [] f.status = "ERROR" -> f.error_message # NoText
        IN /\ made.got.ok <=> meets
           /\ made.got.ok => made.got.v = f

\* a SUPPORTED result with a rule id but without steps was attempted and
\* refused
C13_Witness ==
    /\ made.attempted
    /\ made.fields.status = "SUPPORTED"
    /\ made.fields.pricing_rule_id # NoRow
    /\ made.fields.calculation_steps = <<>>
    /\ ~made.got.ok

----------------------------------------------------------------------------
(* Cost calculator *)

\* the resource has an adapter, is valid, has its pricing row, and the row's
\* unit and price allow the calculation
Succeeds(r) ==
    /\ r.resource_type = "aws_instance"
    /\ Len(r.instance_type) >= 2
    /\ r.region \in supported_regions
    /\ r.priced # <<>>
    /\ r.priced[1].unit = "Hrs"
    /\ r.priced[1].price_per_unit >= 0

RECURSIVE CostOfSucceeded(_)
CostOfSucceeded(rs) ==
    IF rs = <<>> THEN 0
    ELSE CostOfSucceeded(Tail(rs))
            + (IF Succeeds(Head(rs)) THEN Head(rs).priced[1].price_per_unit * 730 ELSE 0)

\* C11: a failure of one resource (ValidationError, PricingMatchError,
\* UnitMismatchError, CalculationError, or no adapter) becomes the
\* UNSUPPORTED or ERROR result of that resource and does not end the run:
\* each resource gets its own result, in order, and the total of a finished
\* run is the sum over the resources that succeeded.
C11_FailureStaysWithItsResource ==
    /\ calc.pc \in {"idle", "calculating", "done"}
    /\ Len(calc.results) <= Len(calc.resources)
    /\ \A i \in 1..Len(calc.results) :
          /\ calc.results[i].resource_id = i
          /\ IF Succeeds(calc.resources[i])
             THEN /\ calc.results[i].status = "SUPPORTED"
                  /\ calc.results[i].monthly_cost
                        = calc.resources[i].priced[1].price_per_unit * 730
             ELSE calc.results[i].status \in {"UNSUPPORTED", "ERROR"}
    /\ calc.pc = "done" =>
          /\ Len(calc.results) = Len(calc.resources)
          /\ calc.analytics.total_monthly_cost = CostOfSucceeded(calc.resources)

\* a finished run whose first resource had no pricing row and whose second
\* resource was priced
C11_Witness ==
    /\ calc.pc = "done"
    /\ Len(calc.results) >= 2
    /\ calc.results[1].status = "ERROR"
    /\ calc.results[1].error_message = "PricingMatchError"
    /\ calc.results[2].status = "SUPPORTED"
    /\ calc.analytics.total_monthly_cost > 0

\* C14: every SUPPORTED result that an adapter's calculate produced has
\* calculation steps, and the result of its last step is its monthly_cost.
C14_LastStepIsMonthlyCost ==
    \A i \in 1..Len(calc.results) :
        calc.results[i].status = "SUPPORTED" =>
            LET steps == calc.results[i].calculation_steps
            IN /\ steps # <<>>
               /\ steps[Len(steps)].result = calc.results[i].monthly_cost

\* a SUPPORTED result with a cost that is not zero and its three steps
C14_Witness ==
    \E i \in 1..Len(calc.results) :
        /\ calc.results[i].status = "SUPPORTED"
        /\ calc.results[i].monthly_cost > 0
        /\ Len(calc.results[i].calculation_steps) = 3

\* the resource's pricing row matched and the cost calculated from it is zero
MatchedAtZeroCost(r) == Succeeds(r) /\ r.priced[1].price_per_unit = 0

\* C15: a resource whose pricing row matched and whose monthly cost is zero
\* is SUPPORTED, with its rule id and calculation steps, is counted among the
\* supported resources of the run and is not listed as unsupported.
C15_ZeroCostIsSupported ==
    /\ \A i \in 1..Len(calc.results) :
          MatchedAtZeroCost(calc.resources[i]) =>
             /\ calc.results[i].status = "SUPPORTED"
             /\ calc.results[i].monthly_cost = 0
             /\ calc.results[i].pricing_rule_id # NoRow
             /\ calc.results[i].calculation_steps # <<>>
    /\ calc.pc = "done" =>
          /\ calc.analytics.total_supported_resources
                = Cardinality({i \in 1..Len(calc.resources) : Succeeds(calc.resources[i])})
          /\ \A k \in 1..Len(calc.analytics.unsupported_resources) :
                ~MatchedAtZeroCost(
                    calc.resources[calc.analytics.unsupported_resources[k].resource_id])

\* a finished run in which every priced resource has a cost of zero
C15_Witness ==
    /\ calc.pc = "done"
    /\ calc.analytics.total_supported_resources >= 1
    /\ calc.analytics.total_monthly_cost = 0
    /\ \E i \in 1..Len(calc.resources) : MatchedAtZeroCost(calc.resources[i])

----------------------------------------------------------------------------
(* Expansion of count and for_each *)

\* the indexes of the instances of template i, in the order they were made
IndexesOf(resources, i) ==
    LET own == SelectSeq(resources, LAMBDA r : r.name = i)
    IN [k \in 1..Len(own) |-> own[k].index]

\* the number a count expression stands for: a literal, or var.n with the
\* override before the default (empty when it stands for no number)
CountOf(expr, variable) ==
    CASE expr[1] = "lit" -> {expr[2]}
      [] expr[1] = "var" ->
            IF variable.override # {} THEN variable.override ELSE variable.default
      [] OTHER -> {}

CountTemplates(config) ==
    {i \in 1..Len(config.templates) :
        /\ config.templates[i].meta = "count"
        /\ CountOf(config.templates[i].expr, config.variable) # {}}

\* C16: a template whose count is N (a literal, or var.n with the override
\* taking precedence over the default) has exactly the N instances [0] ..
\* [N-1], each once and in this order, once the count pass is done; and when
\* every count is within the limit the count pass does not fail, N = 0
\* included.
C16_CountYieldsNInstances ==
    [][ /\ eng'.stage \in {"CountExpanded", "ForEachExpanded", "Finalized"} =>
              \A i \in CountTemplates(eng'.config) :
                  LET N == CHOOSE n \in CountOf(eng'.config.templates[i].expr,
                                                eng'.config.variable) : TRUE
                  IN IndexesOf(eng'.resources, i) = [k \in 1..N |-> <<"count", k - 1>>]
        /\ ( /\ eng.stage = "ConditionalsResolved"
             /\ \A i \in 1..Len(eng.config.templates) :
                   eng.config.templates[i].meta = "count" =>
                      /\ i \in CountTemplates(eng.config)
                      /\ \A n \in CountOf(eng.config.templates[i].expr,
                                          eng.config.variable) : n <= max_expansion )
              => eng'.stage = "CountExpanded" ]_vars

\* a finalized run with count = var.n, where the override 0 replaces the
\* default 2, next to a template with a literal count of 2
C16_Witness ==
    /\ eng.stage = "Finalized"
    /\ eng.config.variable = [default |-> {2}, override |-> {0}]
    /\ \E i, j \in 1..Len(eng.config.templates) :
          /\ eng.config.templates[i].meta = "count"
          /\ eng.config.templates[i].expr = <<"var">>
          /\ eng.config.templates[j].meta = "count"
          /\ eng.config.templates[j].expr = <<"lit", 2>>
          /\ Len(IndexesOf(eng.resources, i)) = 0
          /\ Len(IndexesOf(eng.resources, j)) = 2

ForEachTemplates(config) ==
    {i \in 1..Len(config.templates) :
        /\ config.templates[i].meta = "for_each"
        /\ config.templates[i].expr[1] \in {"map", "set"}}

\* C17: once the for_each pass is done, the instances of a for_each template
\* correspond one-to-one to the keys of its map (or the elements of its set):
\* one instance for each key, none twice, and none for anything that is not a
\* key.
C17_ForEachInstancesAreTheKeys ==
    eng.stage \in {"ForEachExpanded", "Finalized"} =>
        \A i \in ForEachTemplates(eng.config) :
            LET keys == DOMAIN eng.config.templates[i].expr[2]
                made_ids == IndexesOf(eng.resources, i)
            IN /\ {made_ids[k] : k \in 1..Len(made_ids)} = {<<"key", key>> : key \in keys}
               /\ Len(made_ids) = Cardinality(keys)

\* a finalized run with the instances of a map of two keys whose values are
\* not keys
C17_Witness ==
    /\ eng.stage = "Finalized"
    /\ \E i \in ForEachTemplates(eng.config) :
          /\ eng.config.templates[i].expr = <<"map", MapOf(2)>>
          /\ Len(IndexesOf(eng.resources, i)) = 2

\* the run's symbol table, as the variables of the configuration build it
RunSymbols(config) ==
    [n |-> IF config.variable.override # {} THEN config.variable.override
           ELSE config.variable.default,
     ctx |-> NoContext]

\* the number of the instances of the same template before the i-th resource
Before(resources, i) ==
    Cardinality({j \in 1..(i - 1) : resources[j].name = resources[i].name})

\* C26: the loop context is scoped to the instance: the i-th instance (from
\* 0) of a count template resolves count.index to i, the instance for key k
\* resolves each.key to k and each.value to the map's value at k; the run's
\* symbol table is the one the variables built, before and after every
\* expansion; and a run that reaches finalization with a template without
\* meta-argument that refers to count.index, each.key or each.value fails
\* with UnresolvedReference.
C26_LoopContextScopedToInstance ==
    [][ /\ \A i \in DOMAIN eng'.resources :
              LET r == eng'.resources[i]
                  t == eng'.config.templates[r.name]
              IN /\ (t.meta = "count" /\ t.attr[1] = "count.index") =>
                        r.attributes = Before(eng'.resources, i)
                 /\ (t.meta = "for_each" /\ t.attr[1] = "each.key") =>
                        r.index[2] \in DOMAIN t.expr[2] /\ r.attributes = r.index[2]
                 /\ (t.meta = "for_each" /\ t.attr[1] = "each.value") =>
                        r.attributes = t.expr[2][r.index[2]]
        /\ eng.stage \notin {"Idle", "ParseComplete"} => eng'.symbols = eng.symbols
        /\ eng'.stage \notin {"Idle", "ParseComplete"} =>
              eng'.symbols = RunSymbols(eng'.config)
        /\ ( /\ eng.stage = "ForEachExpanded"
             /\ \E k \in DOMAIN eng.config.templates :
                   /\ eng.config.templates[k].meta = "none"
                   /\ eng.config.templates[k].attr[1] \in LoopReferences )
              => eng'.stage = "Failed" /\ eng'.error = "UnresolvedReference"
      ]_vars

\* a run has failed with UnresolvedReference on a template without
\* meta-argument that refers to count.index, declared after a count template
\* of two instances that refers to count.index
C26_Witness ==
    /\ eng.stage = "Failed"
    /\ eng.error = "UnresolvedReference"
    /\ Len(eng.config.templates) = 2
    /\ eng.config.templates[1].meta = "count"
    /\ eng.config.templates[1].expr = <<"lit", 2>>
    /\ eng.config.templates[1].attr = <<"count.index">>
    /\ eng.config.templates[2].meta = "none"
    /\ eng.config.templates[2].attr = <<"count.index">>

----------------------------------------------------------------------------
(* Web client *)

\* C27: whenever a drop or a configuration save changes the nodes of the
\* canvas, the store's nodes, which feed the request and enable the button,
\* are the canvas nodes with their current config; and the services a click
\* on 'Calculate Cost' sends are the nodes on the canvas at that moment.
C27_RequestCarriesCanvasNodes ==
    [][ /\ editor'.nodes # editor.nodes =>
              ServicesOf(store'.nodes) = ServicesOf(editor'.nodes)
        /\ (~request.pending /\ request'.pending) =>
              request'.services = ServicesOf(editor.nodes)
      ]_vars

\* C28: when the dialog is opened for a node its form holds that node's
\* config, whatever node was opened or edited before, so that saving without
\* an edit leaves the config unchanged; and a save writes the form's config
\* to the selected node and to no other node.
C28_DialogShowsTheOpenedNode ==
    [][ /\ (~editor.configDialogOpen /\ editor'.configDialogOpen) =>
              dialog'.config = editor'.selectedNode.config
        /\ (editor.configDialogOpen /\ editor'.nodes # editor.nodes) =>
              editor'.nodes
                 = WithConfig(editor.nodes, editor.selectedNode.id, dialog.config)
      ]_vars

\* C29: once no pricing request is in flight, the displayed options and
\* page count are those of the most recently issued request, which is the
\* request for the current region, filters and page.
C29_LatestRequestIsShown ==
    gcal.inflight = <<>> =>
        LET latest == PricingQuery(gcal.region, gcal.filters, gcal.page)
        IN /\ gcal.pricingOptions = ItemsOf(latest)
           /\ gcal.totalPages = TotalPagesOf(latest)

\* no edge of the store has a source or a target that is not a node's id
NoDanglingEdge(st) ==
    \A i \in DOMAIN st.edges :
        /\ st.edges[i].source \in NodeIds(st.nodes)
        /\ st.edges[i].target \in NodeIds(st.nodes)

\* C30: after every operation of the store and ConfigurationPanel's remove
\* no edge has a source or target that is not the id of a node of the store;
\* and removeNode(id) clears selectedNodeId only when it is id and leaves
\* every other node and every edge that does not touch id as it was.
C30_NoDanglingEdges ==
    [][ /\ NoDanglingEdge(store')
        /\ \A id \in 1..MaxNodes :
              removeNode(id) =>
                 /\ store'.selectedNodeId
                       = (IF store.selectedNodeId = id THEN null
                          ELSE store.selectedNodeId)
                 /\ \A i \in DOMAIN store.nodes :
                       store.nodes[i].id # id =>
                          \E j \in DOMAIN store'.nodes : store'.nodes[j] = store.nodes[i]
                 /\ \A i \in DOMAIN store.edges :
                       (store.edges[i].source # id /\ store.edges[i].target # id) =>
                          \E j \in DOMAIN store'.edges : store'.edges[j] = store.edges[i]
      ]_vars

====
